---------------------------- MODULE Spec2Model ----------------------------
(***************************************************************************)
(* A state-machine model of project_peril's frame loop (src/main.rs) and   *)
(* of its offscreen render stage MainPass (src/renderer/mainpass.rs):      *)
(* startup, the fixed-timestep loop, begin_frame / end_frame, the          *)
(* asynchronous GPU queue, and teardown (impl Drop for MainPass and the    *)
(* scope-exit drops of main's locals).  Durations are in milliseconds.     *)
(***************************************************************************)
EXTENDS Integers, Sequences, FiniteSets, TLC

VARIABLES
    pc,               \* "startup" | "loop" | "drop" | "client" | "exited" | "panicked" | "aborted"
    loop_entered,     \* history: main has reached its `while running` loop
    stmt,             \* index into main_init_body / main_loop_body (0 = the `while running` test)
    step,             \* index into the body of the routine being executed
    panicking,        \* the thread is unwinding from a panic
    dropping,         \* the component whose drop is in progress, or "none"
    alive,            \* components constructed and not yet dropped
    strong_count,     \* Rc::strong_count of the shared device
    device_destroyed, \* the Device Context has destroyed the device
    debug_assertions, \* build profile: debug_assert! is compiled in
    running,
    framecount,
    accumulator,
    elapsed_time,
    frame_times,      \* history: every frame_time measured so far
    updates,          \* history: scene.update calls per outer iteration
    close_pending,    \* a Closed event is queued in the event loop
    close_delivered,  \* history: the windowing collaborator has delivered Closed
    close_observed,   \* history: poll_events has run the Closed arm
    closed_at_start,  \* history: Closed was delivered before main reached its loop
    iter_log,         \* history: calls main made in the current outer iteration
    frame_log,        \* history: graphics calls of the current begin_frame/end_frame
    begin_frames,     \* history: number of begin_frame calls
    end_frames,       \* history: number of end_frame calls
    presents,         \* history: number of present_image calls
    render_image,     \* tracked usage state of MainPass.render_image
    depth_image,      \* tracked usage state of MainPass.depth_image
    cb_state,         \* "initial" | "recording" | "executable" | "invalid"
    in_render_pass,
    barriers,         \* barriers recorded into the command buffer since its last begin
    cb_flags,         \* usage flags the command buffer was last begun with
    bound_sets,       \* descriptor sets bound in the current recording, as <<set index, set>>
    submits,          \* history: the SubmitInfo of every queue_submit of the current frame
    one_off_submits,  \* history: one-off command buffers transition_texture allocated and submitted
    in_flight,        \* submissions the GPU has not finished executing
    live,             \* Vulkan objects owned by the MainPass that are not destroyed
    teardown_log,     \* history: device calls made by MainPass::drop
    descriptor_pool,  \* what is allocated from MainPass.descriptor_pool
    alloc_requests,   \* history: number of allocate_descriptor_sets calls
    last_alloc,       \* history: the last allocate_descriptor_sets call and its result
    view_matrix,      \* main's local view_matrix: the iteration it was computed in (0 = not yet)
    view_matrix_ub_mem, \* the matrix held by the uniform buffer's memory (0 = never written)
    cfg,              \* the Config read at startup: render_width, render_height
    mainpass,         \* the sizes held by the MainPass and its images, once constructed
    handles,          \* the Vulkan handles held by the fields of the MainPass
    used_handles      \* history: the handles begin_frame and end_frame used, as <<role, handle>>

vars == << pc, loop_entered, stmt, step, panicking, dropping, alive, strong_count,
           device_destroyed, debug_assertions, running, framecount,
           accumulator, elapsed_time, frame_times, updates, close_pending,
           close_delivered, close_observed, closed_at_start, iter_log, frame_log, begin_frames,
           end_frames, presents, render_image, depth_image, cb_state,
           in_render_pass, barriers, cb_flags, bound_sets, submits,
           one_off_submits, in_flight,
           live, teardown_log, descriptor_pool, alloc_requests, last_alloc,
           view_matrix, view_matrix_ub_mem, cfg, mainpass, handles, used_handles >>

main_vars == << pc, loop_entered, stmt, step, panicking, dropping >>
owner_vars == << alive, strong_count, device_destroyed >>
sched_vars == << running, framecount, accumulator, elapsed_time, frame_times, updates >>
event_vars == << close_pending, close_delivered, close_observed, closed_at_start >>
count_vars == << begin_frames, end_frames, presents >>
image_vars == << render_image, depth_image >>
cmd_vars == << cb_state, in_render_pass, barriers, cb_flags, bound_sets, submits,
              one_off_submits >>
drop_vars == << live, teardown_log >>
pool_vars == << descriptor_pool, alloc_requests, last_alloc >>
ubo_vars == << view_matrix, view_matrix_ub_mem >>
cfg_vars == << cfg, mainpass, handles >>

-----------------------------------------------------------------------------
(* Bounds of the model *)

\* Outer iterations of the main loop explored.
MaxFrames == 3

\* Wall-clock frame times (ms) the clock may yield.
FrameTimeSet == {5, 20, 40}

\* allocate_descriptor_sets calls explored on one descriptor pool.
MaxAllocs == 10

\* Render widths and heights (pixels) a configuration may ask for.
RenderWidths == { 1, 640, 800, 1920, 4096 }
RenderHeights == { 1, 480, 600, 1080, 4096 }

\* Outcome of SystemTime::duration_since when the clock went backwards.
ClockWentBack == -1

-----------------------------------------------------------------------------
(* Program constants and straight-line bodies, transcribed from the source *)

\* main.rs:83
delta_time == 17

\* main.rs:26-29: the locals of main that own GPU state, in declaration order.
main_init_body == << "renderstate", "presentpass", "mainpass", "scene" >>

\* Mutant of main_loop_body: the events are polled at the start of the iteration.
main_loop_body_poll_first ==
    << "poll_events", "frame_time", "drain", "generate_view_matrix", "begin_frame",
       "scene.draw", "end_frame", "present_image", "framecount" >>

\* Mutant of main_loop_body: the image is presented before end_frame submits the frame.
main_loop_body_present_early ==
    << "frame_time", "drain", "generate_view_matrix", "begin_frame",
       "scene.draw", "present_image", "end_frame", "framecount", "poll_events" >>

\* Mutant of main_loop_body: the view matrix is computed after scene.draw.
main_loop_body_late_view_matrix ==
    << "frame_time", "drain", "begin_frame", "scene.draw", "generate_view_matrix",
       "end_frame", "present_image", "framecount", "poll_events" >>

\* Mutant of main_loop_body: the call of end_frame is left out.
main_loop_body_no_end_frame ==
    << "frame_time", "drain", "generate_view_matrix", "begin_frame",
       "scene.draw", "present_image", "framecount", "poll_events" >>

\* main.rs:89-135: the statements of one outer iteration.
main_loop_body ==
    << "frame_time", "drain", "generate_view_matrix", "begin_frame",
       "scene.draw", "end_frame", "present_image", "framecount", "poll_events" >>

\* Mutant of begin_frame_body: the render pass is begun before the image is transitioned.
begin_frame_body_pass_first ==
    << "begin_command_buffer", "update_descriptor_sets", "cmd_begin_render_pass",
       "transition_texture", "cmd_bind_descriptor_sets", "cmd_bind_pipeline",
       "cmd_set_viewport", "cmd_set_scissor" >>

\* Mutant of begin_frame_body: the pipeline is bound before the render pass is begun.
begin_frame_body_bind_early ==
    << "begin_command_buffer", "transition_texture", "update_descriptor_sets",
       "cmd_bind_pipeline", "cmd_begin_render_pass", "cmd_bind_descriptor_sets",
       "cmd_set_viewport", "cmd_set_scissor" >>

\* mainpass.rs:577-653
begin_frame_body ==
    << "begin_command_buffer", "transition_texture", "update_descriptor_sets",
       "cmd_begin_render_pass", "cmd_bind_descriptor_sets", "cmd_bind_pipeline",
       "cmd_set_viewport", "cmd_set_scissor" >>

\* mainpass.rs:46-69: the attachments of the render pass (0 = colour, 1 = depth).
renderpass_attachments ==
    [ i \in {0, 1} |->
        IF i = 0
        THEN [ format |-> "R8g8b8a8Unorm", load_op |-> "Clear", store_op |-> "Store",
               initial_layout |-> "ColorAttachmentOptimal",
               final_layout   |-> "ColorAttachmentOptimal" ]
        ELSE [ format |-> "D32Sfloat", load_op |-> "Clear", store_op |-> "DontCare",
               initial_layout |-> "DepthStencilAttachmentOptimal",
               final_layout   |-> "DepthStencilAttachmentOptimal" ] ]

\* Mutant of transition_cmd_buf: the transition is called with None.
transition_cmd_buf_none == "none"

\* mainpass.rs:588: the command buffer begin_frame passes to transition_texture,
\* Some(cmd_buf) with cmd_buf = self.commandbuffer (mainpass.rs:577).
transition_cmd_buf == "commandbuffer"

\* mainpass.rs:575: the flags begin_frame begins the command buffer with.
cmd_buf_begin_flags == { "SIMULTANEOUS_USE" }

\* mainpass.rs:641: first_set of cmd_bind_descriptor_sets.
first_set == 1

\* Mutant of end_frame_body: the command buffer is submitted before its recording is ended.
end_frame_body_submit_early ==
    << "cmd_end_render_pass", "queue_submit", "end_command_buffer" >>

\* mainpass.rs:659-681
end_frame_body == << "cmd_end_render_pass", "end_command_buffer", "queue_submit" >>

\* mainpass.rs:668-680
EndFrameSubmitInfo ==
    [ command_buffers |-> << "commandbuffer" >>, wait_semaphores |-> 0,
      signal_semaphores |-> 0, fence |-> "null", queue |-> "graphics_queue" ]

\* Mutant of MainPassDrop_body: the pipeline layout is destroyed before the pipeline.
MainPassDrop_body_layout_early ==
    << [call |-> "debug_assert",                  obj |-> "device"],
       [call |-> "device_wait_idle",              obj |-> "device"],
       [call |-> "destroy_buffer",                obj |-> "view_matrix_ub"],
       [call |-> "free_memory",                   obj |-> "view_matrix_ub_mem"],
       [call |-> "destroy_sampler",               obj |-> "depth_image.sampler"],
       [call |-> "destroy_image_view",            obj |-> "depth_image.view"],
       [call |-> "destroy_image",                 obj |-> "depth_image.image"],
       [call |-> "free_memory",                   obj |-> "depth_image.memory"],
       [call |-> "destroy_sampler",               obj |-> "render_image.sampler"],
       [call |-> "destroy_image_view",            obj |-> "render_image.view"],
       [call |-> "destroy_image",                 obj |-> "render_image.image"],
       [call |-> "free_memory",                   obj |-> "render_image.memory"],
       [call |-> "destroy_framebuffer",           obj |-> "framebuffer"],
       [call |-> "destroy_pipeline_layout",       obj |-> "pipeline_layout"],
       [call |-> "destroy_pipeline",              obj |-> "pipeline"],
       [call |-> "destroy_descriptor_set_layout", obj |-> "descriptor_set_layouts[0]"],
       [call |-> "destroy_descriptor_set_layout", obj |-> "descriptor_set_layouts[1]"],
       [call |-> "destroy_descriptor_pool",       obj |-> "descriptor_pool"],
       [call |-> "destroy_render_pass",           obj |-> "renderpass"] >>

\* Mutant of MainPassDrop_body: the render pass is destroyed before the framebuffer.
MainPassDrop_body_renderpass_early ==
    << [call |-> "debug_assert",                  obj |-> "device"],
       [call |-> "device_wait_idle",              obj |-> "device"],
       [call |-> "destroy_buffer",                obj |-> "view_matrix_ub"],
       [call |-> "free_memory",                   obj |-> "view_matrix_ub_mem"],
       [call |-> "destroy_sampler",               obj |-> "depth_image.sampler"],
       [call |-> "destroy_image_view",            obj |-> "depth_image.view"],
       [call |-> "destroy_image",                 obj |-> "depth_image.image"],
       [call |-> "free_memory",                   obj |-> "depth_image.memory"],
       [call |-> "destroy_sampler",               obj |-> "render_image.sampler"],
       [call |-> "destroy_image_view",            obj |-> "render_image.view"],
       [call |-> "destroy_image",                 obj |-> "render_image.image"],
       [call |-> "free_memory",                   obj |-> "render_image.memory"],
       [call |-> "destroy_render_pass",           obj |-> "renderpass"],
       [call |-> "destroy_framebuffer",           obj |-> "framebuffer"],
       [call |-> "destroy_pipeline",              obj |-> "pipeline"],
       [call |-> "destroy_pipeline_layout",       obj |-> "pipeline_layout"],
       [call |-> "destroy_descriptor_set_layout", obj |-> "descriptor_set_layouts[0]"],
       [call |-> "destroy_descriptor_set_layout", obj |-> "descriptor_set_layouts[1]"],
       [call |-> "destroy_descriptor_pool",       obj |-> "descriptor_pool"] >>

\* mainpass.rs:690-721
MainPassDrop_body ==
    << [call |-> "debug_assert",                  obj |-> "device"],
       [call |-> "device_wait_idle",              obj |-> "device"],
       [call |-> "destroy_buffer",                obj |-> "view_matrix_ub"],
       [call |-> "free_memory",                   obj |-> "view_matrix_ub_mem"],
       [call |-> "destroy_sampler",               obj |-> "depth_image.sampler"],
       [call |-> "destroy_image_view",            obj |-> "depth_image.view"],
       [call |-> "destroy_image",                 obj |-> "depth_image.image"],
       [call |-> "free_memory",                   obj |-> "depth_image.memory"],
       [call |-> "destroy_sampler",               obj |-> "render_image.sampler"],
       [call |-> "destroy_image_view",            obj |-> "render_image.view"],
       [call |-> "destroy_image",                 obj |-> "render_image.image"],
       [call |-> "free_memory",                   obj |-> "render_image.memory"],
       [call |-> "destroy_framebuffer",           obj |-> "framebuffer"],
       [call |-> "destroy_pipeline",              obj |-> "pipeline"],
       [call |-> "destroy_pipeline_layout",       obj |-> "pipeline_layout"],
       [call |-> "destroy_descriptor_set_layout", obj |-> "descriptor_set_layouts[0]"],
       [call |-> "destroy_descriptor_set_layout", obj |-> "descriptor_set_layouts[1]"],
       [call |-> "destroy_descriptor_pool",       obj |-> "descriptor_pool"],
       [call |-> "destroy_render_pass",           obj |-> "renderpass"] >>

\* mainpass.rs:494-541: the Vulkan objects MainPass::init creates and owns.
MainPassObjects ==
    { "view_matrix_ub", "view_matrix_ub_mem",
      "depth_image.sampler", "depth_image.view", "depth_image.image", "depth_image.memory",
      "render_image.sampler", "render_image.view", "render_image.image", "render_image.memory",
      "framebuffer", "pipeline", "pipeline_layout",
      "descriptor_set_layouts[0]", "descriptor_set_layouts[1]",
      "descriptor_pool", "renderpass" }

\* Mutant of WaitsForGpu: begin_command_buffer also waits for pending executions.
WaitsForGpu_begin(call) == call \in {"device_wait_idle", "begin_command_buffer"}

\* The device calls that block the CPU thread until the GPU has finished what was
\* submitted: of the calls the program makes, only device_wait_idle
\* (mainpass.rs:694); no fence is ever waited on (mainpass.rs:680 passes none).
WaitsForGpu(call) == call \in {"device_wait_idle"}

-----------------------------------------------------------------------------
(* Sizes derived from the configuration, mainpass.rs:297-314, 444-455, 487-523 *)

\* `n as f32` for a u32 n: the nearest value with a 24-bit significand, ties to
\* even; exact for every n up to 2^24.
as_f32(n) ==
    IF n < 16777216 THEN n
    ELSE LET e   == CHOOSE k \in 24..30 : 2^k <= n /\ n \div 2 < 2^k
             ulp == 2^(e - 23)
             q   == n \div ulp
             r   == n % ulp
         IN  IF 2 * r > ulp \/ (2 * r = ulp /\ q % 2 = 1) THEN (q + 1) * ulp ELSE q * ulp

\* mainpass.rs:487-491
render_size == [ width |-> cfg.render_width, height |-> cfg.render_height, depth |-> 1 ]

\* RenderState::create_texture(size, ...): the image it returns has the size asked for.
create_texture(size) == [ width |-> size.width, height |-> size.height, depth |-> size.depth ]

\* Mutant of Viewport: the viewport is square, as high as the render size is wide.
Viewport_square(size) ==
    [ x |-> 0, y |-> 0, width |-> as_f32(size.width), height |-> as_f32(size.width),
      min_depth |-> 0, max_depth |-> 1 ]

\* mainpass.rs:297-304
Viewport(size) ==
    [ x |-> 0, y |-> 0, width |-> as_f32(size.width), height |-> as_f32(size.height),
      min_depth |-> 0, max_depth |-> 1 ]

\* mainpass.rs:305-314
Scissor(size) ==
    [ offset |-> [ x |-> 0, y |-> 0 ],
      extent |-> [ width |-> size.width, height |-> size.height ] ]

\* mainpass.rs:444-455
create_framebuffer(size) ==
    [ attachments |-> << "render_image.view", "depth_image.view" >>,
      width |-> size.width, height |-> size.height, layers |-> 1 ]

\* mainpass.rs:494-523, 543-555: what MainPass::init builds from render_size.
MainPassSizes(size) ==
    [ render_image |-> create_texture(size),
      depth_image  |-> create_texture(size),
      viewport     |-> Viewport(size),
      scissor      |-> Scissor(size),
      framebuffer  |-> create_framebuffer(size) ]

NoMainPass == [ constructed |-> FALSE ]

\* mainpass.rs:600-608: render_area of begin_frame's RenderPassBeginInfo.
render_area == mainpass.scissor

-----------------------------------------------------------------------------
(* The descriptor pool, mainpass.rs:114-136 and 531-541 *)

\* mainpass.rs:131
max_sets == 8

\* mainpass.rs:115-124: descriptor_count per descriptor type.
descriptor_sizes == [ CombinedImageSampler |-> 14, UniformBuffer |-> 1 ]

\* mainpass.rs:137-161: the descriptors one set of each layout takes
\* (descriptor_set_layouts[0] = material textures, [1] = view matrix).
LayoutDescriptors ==
    [ material    |-> [ CombinedImageSampler |-> 2, UniformBuffer |-> 0 ],
      view_matrix |-> [ CombinedImageSampler |-> 0, UniformBuffer |-> 1 ] ]

\* Mutant of pipeline_set_layouts: the uniform-buffer layout comes first.
pipeline_set_layouts_swapped == << "view_matrix", "material" >>

\* mainpass.rs:177-183, 191-199: the descriptor-set layouts in the order the
\* pipeline layout is created from them; set index i is the (i+1)-th entry.
pipeline_set_layouts == << "material", "view_matrix" >>

\* mainpass.rs:536: p_set_layouts: &descriptor_set_layouts[1]
view_matrix_set_layout == 1

EmptyPool == [ sets |-> 0, CombinedImageSampler |-> 0, UniformBuffer |-> 0 ]

NoAlloc == [ layout |-> "none", sets_before |-> 0, fits |-> TRUE, ok |-> FALSE ]

\* The request stays within max_sets and within the pool's descriptor counts.
Fits(pool, layout) ==
    /\ pool.sets + 1 <= max_sets
    /\ pool.CombinedImageSampler + LayoutDescriptors[layout].CombinedImageSampler
          <= descriptor_sizes.CombinedImageSampler
    /\ pool.UniformBuffer + LayoutDescriptors[layout].UniformBuffer
          <= descriptor_sizes.UniformBuffer

\* The pool after one set of the layout has been allocated from it.
Allocated(pool, layout) ==
    [ sets |-> pool.sets + 1,
      CombinedImageSampler |-> pool.CombinedImageSampler
                                 + LayoutDescriptors[layout].CombinedImageSampler,
      UniformBuffer |-> pool.UniformBuffer + LayoutDescriptors[layout].UniformBuffer ]

\* What each object was created from or refers to, as << object, what it uses >>:
\* the framebuffer over the two image views and the render pass
\* (mainpass.rs:444-455), the pipeline with its layout and the render pass
\* (418-419), the pipeline layout from the descriptor-set layouts (195-196); a
\* Texture's view is of its image and the image is bound to its memory, and the
\* uniform buffer is bound to its memory (create_texture, create_buffer).
CreatedFrom ==
    { << "framebuffer", "render_image.view" >>, << "framebuffer", "depth_image.view" >>,
      << "framebuffer", "renderpass" >>,
      << "pipeline", "pipeline_layout" >>, << "pipeline", "renderpass" >>,
      << "pipeline_layout", "descriptor_set_layouts[0]" >>,
      << "pipeline_layout", "descriptor_set_layouts[1]" >>,
      << "render_image.view", "render_image.image" >>,
      << "render_image.image", "render_image.memory" >>,
      << "depth_image.view", "depth_image.image" >>,
      << "depth_image.image", "depth_image.memory" >>,
      << "view_matrix_ub", "view_matrix_ub_mem" >> }

\* mainpass.rs:543-563: the handles MainPass::init stores in the fields of the
\* MainPass; each names the one object it was created as.
MainPassHandles ==
    [ renderpass             |-> "renderpass",
      descriptor_pool        |-> "descriptor_pool",
      descriptor_set_layouts |-> << "descriptor_set_layouts[0]", "descriptor_set_layouts[1]" >>,
      pipeline_layout        |-> "pipeline_layout",
      pipeline               |-> "pipeline",
      framebuffer            |-> "framebuffer",
      commandbuffer          |-> "commandbuffer",
      view_matrix_ub         |-> "view_matrix_ub",
      view_matrix_ub_mem     |-> "view_matrix_ub_mem",
      view_matrix_ds         |-> << "view_matrix_ds[0]" >> ]

\* The fields of a MainPass that is not constructed hold no handle.
NoHandles ==
    [ f \in DOMAIN MainPassHandles |->
        IF f \in {"descriptor_set_layouts", "view_matrix_ds"} THEN << "null" >> ELSE "null" ]

\* Mutant of FrameCommandBuffer: the n-th frame records into a command buffer of its own.
FrameCommandBuffer_fresh(h, n) == << "commandbuffer", n >>

\* mainpass.rs:577, 659: let cmd_buf = self.commandbuffer, in the n-th frame.
FrameCommandBuffer(h, n) == h.commandbuffer

\* mainpass.rs:579-650, 663-680: the handles a call of begin_frame or end_frame
\* is given besides the command buffer, as << field, handle >>.
HandlesOf(call) ==
    CASE call = "cmd_begin_render_pass" ->
            { << "renderpass", handles.renderpass >>, << "framebuffer", handles.framebuffer >> }
      [] call = "update_descriptor_sets" ->
            { << "view_matrix_ub", handles.view_matrix_ub >>,
              << "view_matrix_ds", handles.view_matrix_ds[1] >> }
      [] call = "cmd_bind_descriptor_sets" ->
            { << "pipeline_layout", handles.pipeline_layout >>,
              << "view_matrix_ds", handles.view_matrix_ds[1] >> }
      [] call = "cmd_bind_pipeline" -> { << "pipeline", handles.pipeline >> }
      [] OTHER -> {}

\* The calls that are made on the command buffer.
OnCommandBuffer(call) == call \notin { "update_descriptor_sets" }

-----------------------------------------------------------------------------
(* GPU Image usage states {access mask, layout, pipeline stage} *)

NoUsage == [access |-> {}, layout |-> "Undefined", stage |-> "TOP_OF_PIPE"]

\* mainpass.rs:501-503: initial usage state requested for render_image.
RenderImageInitialUsage ==
    [ access |-> {"COLOR_ATTACHMENT_READ", "COLOR_ATTACHMENT_WRITE"},
      layout |-> "ColorAttachmentOptimal",
      stage  |-> "COLOR_ATTACHMENT_OUTPUT" ]

\* mainpass.rs:513-515: initial usage state requested for depth_image.
DepthImageInitialUsage ==
    [ access |-> {"DEPTH_STENCIL_ATTACHMENT_READ", "DEPTH_STENCIL_ATTACHMENT_WRITE"},
      layout |-> "DepthStencilAttachmentOptimal",
      stage  |-> "ALL_GRAPHICS" ]

\* Mutant of BeginFrameTarget: the transition asks for the General layout.
BeginFrameTarget_general ==
    [ access |-> {"COLOR_ATTACHMENT_READ", "COLOR_ATTACHMENT_WRITE"},
      layout |-> "General",
      stage  |-> "COLOR_ATTACHMENT_OUTPUT" ]

\* mainpass.rs:585-587: the target begin_frame passes to transition_texture.
BeginFrameTarget ==
    [ access |-> {"COLOR_ATTACHMENT_READ", "COLOR_ATTACHMENT_WRITE"},
      layout |-> "ColorAttachmentOptimal",
      stage  |-> "COLOR_ATTACHMENT_OUTPUT" ]

TransferSrcUsage ==
    [ access |-> {"TRANSFER_READ"}, layout |-> "TransferSrcOptimal", stage |-> "TRANSFER" ]

\* The states the Presentation Stage may leave the colour image in.
PresentUsages == { TransferSrcUsage, RenderImageInitialUsage }

UsageStates == PresentUsages \cup { DepthImageInitialUsage, NoUsage }

\* RenderState::transition_texture with Some(cmd_buf): the tracked state
\* becomes the target and one barrier old -> new is recorded.  With None the
\* barrier goes into a one-off command buffer that is allocated and submitted
\* synchronously instead.
transition_texture(image, target, recorded) ==
    [ image    |-> target,
      recorded |-> Append(recorded, [src |-> image, dst |-> target]) ]

-----------------------------------------------------------------------------
(* Control-flow helpers *)

At(s) == pc = "loop" /\ stmt \in 1..Len(main_loop_body) /\ main_loop_body[stmt] = s

Starting(c) == pc = "startup" /\ stmt \in 1..Len(main_init_body) /\ main_init_body[stmt] = c

\* Mutant of Panic: the failed result is ignored and main goes on with its next statement.
Panic_ignored ==
    /\ pc' = pc
    /\ stmt' = stmt + 1
    /\ step' = 1
    /\ UNCHANGED << panicking, dropping, loop_entered >>

\* A panic starts unwinding; a panic while already unwinding aborts the process.
Panic ==
    /\ pc' = IF panicking THEN "aborted" ELSE IF pc = "client" THEN "client" ELSE "drop"
    /\ panicking' = TRUE
    /\ dropping' = "none"
    /\ step' = 1
    /\ stmt' = stmt
    /\ loop_entered' = loop_entered

StartupAdvance ==
    /\ IF stmt < Len(main_init_body)
          THEN pc' = pc /\ stmt' = stmt + 1 /\ loop_entered' = loop_entered
          ELSE pc' = "loop" /\ stmt' = 0 /\ loop_entered' = TRUE
    /\ UNCHANGED << step, panicking, dropping >>

LoopAdvance ==
    /\ stmt' = IF stmt = Len(main_loop_body) THEN 0 ELSE stmt + 1
    /\ UNCHANGED << pc, loop_entered, step, panicking, dropping >>

\* Position after one call of a routine body: the next call, or the statement after it.
BodyAdvance(body) ==
    /\ IF step < Len(body)
          THEN stmt' = stmt /\ step' = step + 1
          ELSE stmt' = stmt + 1 /\ step' = 1
    /\ UNCHANGED << pc, loop_entered, panicking, dropping >>

\* Mutant of LastDeclared: locals are dropped in the order of their declaration.
FirstDeclared(S) ==
    main_init_body[CHOOSE i \in 1..Len(main_init_body) :
                      /\ main_init_body[i] \in S
                      /\ \A j \in 1..(i-1) : main_init_body[j] \notin S]

\* Rust drops locals in reverse order of declaration (main.rs:26-29, 139).
LastDeclared(S) ==
    main_init_body[CHOOSE i \in 1..Len(main_init_body) :
                      /\ main_init_body[i] \in S
                      /\ \A j \in (i+1)..Len(main_init_body) : main_init_body[j] \notin S]

-----------------------------------------------------------------------------
(* Startup, main.rs:26-29 *)

Init ==
    /\ pc = "startup" /\ loop_entered = FALSE /\ stmt = 1 /\ step = 1
    /\ panicking = FALSE /\ dropping = "none"
    /\ alive = {} /\ strong_count = 0 /\ device_destroyed = FALSE
    /\ debug_assertions \in BOOLEAN
    /\ running = TRUE /\ framecount = 0
    /\ accumulator = 0 /\ elapsed_time = 0
    /\ frame_times = << >> /\ updates = << >>
    /\ close_pending = FALSE /\ close_delivered = FALSE /\ close_observed = FALSE
    /\ closed_at_start = FALSE
    /\ iter_log = << >> /\ frame_log = << >>
    /\ begin_frames = 0 /\ end_frames = 0 /\ presents = 0
    /\ render_image = NoUsage /\ depth_image = NoUsage
    /\ cb_state = "initial" /\ in_render_pass = FALSE
    /\ barriers = << >> /\ cb_flags = {} /\ bound_sets = {}
    /\ submits = << >> /\ one_off_submits = 0 /\ in_flight = 0
    /\ live = {} /\ teardown_log = << >>
    /\ descriptor_pool = EmptyPool /\ alloc_requests = 0 /\ last_alloc = NoAlloc
    /\ view_matrix = 0 /\ view_matrix_ub_mem = 0
    /\ cfg = [ render_width |-> 800, render_height |-> 600 ]
    /\ mainpass = NoMainPass /\ handles = NoHandles /\ used_handles = {}

\* RenderState::init: the Device Context, first holder of the device.
RenderStateInit ==
    /\ Starting("renderstate")
    /\ \E ok \in BOOLEAN :
          IF ok
             THEN /\ alive' = alive \cup {"renderstate"}
                  /\ strong_count' = 1
                  /\ StartupAdvance
             ELSE /\ Panic
                  /\ UNCHANGED << alive, strong_count >>
    /\ UNCHANGED << device_destroyed, debug_assertions, cfg_vars, used_handles, pool_vars, ubo_vars, sched_vars, event_vars,
                    iter_log, frame_log, count_vars, image_vars, cmd_vars,
                    in_flight, drop_vars >>

\* PresentPass::init(&renderstate)
PresentPassInit ==
    /\ Starting("presentpass")
    /\ \E ok \in BOOLEAN :
          IF ok
             THEN /\ alive' = alive \cup {"presentpass"}
                  /\ strong_count' = strong_count + 1
                  /\ StartupAdvance
             ELSE /\ Panic
                  /\ UNCHANGED << alive, strong_count >>
    /\ UNCHANGED << device_destroyed, debug_assertions, cfg_vars, used_handles, pool_vars, ubo_vars, sched_vars, event_vars,
                    iter_log, frame_log, count_vars, image_vars, cmd_vars,
                    in_flight, drop_vars >>

\* MainPass::init, mainpass.rs:484-564
MainPassInit ==
    /\ Starting("mainpass")
    /\ \E ok \in BOOLEAN :
          IF ok
             THEN /\ alive' = alive \cup {"mainpass"}
                  /\ strong_count' = strong_count + 1
                  /\ render_image' = RenderImageInitialUsage
                  /\ depth_image' = DepthImageInitialUsage
                  /\ live' = MainPassObjects
                  /\ descriptor_pool' =
                        Allocated(descriptor_pool, pipeline_set_layouts[view_matrix_set_layout + 1])
                  /\ mainpass' = MainPassSizes(render_size)
                  /\ handles' = MainPassHandles
                  /\ StartupAdvance
             ELSE /\ Panic
                  /\ UNCHANGED << alive, strong_count, image_vars, live, descriptor_pool,
                                  mainpass, handles >>
    /\ alloc_requests' = alloc_requests + 1
    /\ last_alloc' = [ layout |-> pipeline_set_layouts[view_matrix_set_layout + 1],
                       sets_before |-> descriptor_pool.sets,
                       fits |-> Fits(descriptor_pool,
                                     pipeline_set_layouts[view_matrix_set_layout + 1]),
                       ok |-> (descriptor_pool' # descriptor_pool) ]
    /\ cb_state' = "initial"
    /\ UNCHANGED << device_destroyed, debug_assertions, cfg, used_handles, ubo_vars,
                    sched_vars, event_vars,
                    iter_log, frame_log, count_vars, in_render_pass, barriers,
                    cb_flags, bound_sets, submits, one_off_submits, in_flight,
                    teardown_log >>

\* Scene::new(&renderstate, &mainpass)
SceneNew ==
    /\ Starting("scene")
    /\ \E ok \in BOOLEAN :
          IF ok
             THEN /\ alive' = alive \cup {"scene"}
                  /\ strong_count' = strong_count + 1
                  /\ StartupAdvance
             ELSE /\ Panic
                  /\ UNCHANGED << alive, strong_count >>
    /\ UNCHANGED << device_destroyed, debug_assertions, cfg_vars, used_handles, pool_vars, ubo_vars, sched_vars, event_vars,
                    iter_log, frame_log, count_vars, image_vars, cmd_vars,
                    in_flight, drop_vars >>

-----------------------------------------------------------------------------
(* The frame scheduler, main.rs:80-136 *)

\* main.rs:94
Accumulate(acc, ft) == acc + ft

\* Mutant of DrainGuard: a step is taken only when more than one step is owed.
DrainGuard_strict(acc) == acc > delta_time

\* main.rs:96
DrainGuard(acc) == acc >= delta_time

\* Mutant of Drain: a step empties the accumulator.
Drain_reset(acc) == 0

\* main.rs:99
Drain(acc) == acc - delta_time

\* Mutant of Elapse: a step advances elapsed_time by two fixed steps.
Elapse_double(t) == t + 2 * delta_time

\* main.rs:100
Elapse(t) == t + delta_time

\* main.rs:88: the loop condition; a false condition leaves the loop and main's scope.
WhileRunning ==
    /\ pc = "loop" /\ stmt = 0
    /\ running => framecount < MaxFrames
    /\ IF running
          THEN pc' = pc /\ stmt' = 1
          ELSE pc' = "drop" /\ stmt' = stmt
    /\ UNCHANGED << loop_entered, step, panicking, dropping, owner_vars, debug_assertions, cfg_vars, used_handles, pool_vars, ubo_vars,
                    sched_vars, event_vars, iter_log, frame_log, count_vars,
                    image_vars, cmd_vars, in_flight, drop_vars >>

\* main.rs:89-94
MeasureFrameTime ==
    /\ At("frame_time")
    /\ \E ft \in FrameTimeSet \cup {ClockWentBack} :
          IF ft = ClockWentBack
             THEN /\ Panic
                  /\ UNCHANGED << accumulator, frame_times, updates, iter_log,
                                  frame_log, submits >>
             ELSE /\ accumulator' = Accumulate(accumulator, ft)
                  /\ frame_times' = Append(frame_times, ft)
                  /\ updates' = Append(updates, 0)
                  /\ iter_log' = << >>
                  /\ frame_log' = << >>
                  /\ submits' = << >>
                  /\ LoopAdvance
    /\ UNCHANGED << owner_vars, debug_assertions, cfg_vars, used_handles, pool_vars, ubo_vars, running, framecount,
                    elapsed_time, event_vars, count_vars, image_vars, cb_state,
                    in_render_pass, barriers, cb_flags, bound_sets, one_off_submits,
                    in_flight, drop_vars >>

\* main.rs:96-101: one pass of the drain loop.
SceneUpdate ==
    /\ At("drain")
    /\ DrainGuard(accumulator)
    /\ accumulator' = Drain(accumulator)
    /\ elapsed_time' = Elapse(elapsed_time)
    /\ updates' = [updates EXCEPT ![Len(updates)] = @ + 1]
    /\ iter_log' = Append(iter_log, "scene.update")
    /\ UNCHANGED << main_vars, owner_vars, debug_assertions, cfg_vars, used_handles, pool_vars, ubo_vars, running, framecount,
                    frame_times, event_vars, frame_log, count_vars, image_vars,
                    cmd_vars, in_flight, drop_vars >>

\* main.rs:96: the drain loop's condition is false.
DrainDone ==
    /\ At("drain")
    /\ ~DrainGuard(accumulator)
    /\ LoopAdvance
    /\ UNCHANGED << owner_vars, debug_assertions, cfg_vars, used_handles, pool_vars, ubo_vars, sched_vars, event_vars,
                    iter_log, frame_log, count_vars, image_vars, cmd_vars,
                    in_flight, drop_vars >>

\* main.rs:104: the matrix of this iteration, named by the iteration's number.
GenerateViewMatrix ==
    /\ At("generate_view_matrix")
    /\ view_matrix' = Len(frame_times)
    /\ LoopAdvance
    /\ UNCHANGED << view_matrix_ub_mem, owner_vars, debug_assertions, cfg_vars, used_handles, pool_vars, sched_vars, event_vars,
                    iter_log, frame_log, count_vars, image_vars, cmd_vars,
                    in_flight, drop_vars >>

\* main.rs:108-113: Scene::draw is handed &view_matrix; it writes the matrix into
\* the memory of the view-matrix uniform buffer (pub view_matrix_ub_mem,
\* mainpass.rs:33) and records the draws.
SceneDraw ==
    /\ At("scene.draw")
    /\ iter_log' = Append(iter_log, "scene.draw")
    /\ view_matrix_ub_mem' = view_matrix
    /\ LoopAdvance
    /\ UNCHANGED << view_matrix, owner_vars, debug_assertions, cfg_vars, used_handles, pool_vars, sched_vars, event_vars,
                    frame_log, count_vars, image_vars, cmd_vars, in_flight,
                    drop_vars >>

\* main.rs:117: PresentPass::present_image(&renderstate, &mut mainpass.render_image)
PresentImage ==
    /\ At("present_image")
    /\ \E u \in PresentUsages : render_image' = u
    /\ presents' = presents + 1
    /\ iter_log' = Append(iter_log, "present_image")
    /\ LoopAdvance
    /\ UNCHANGED << owner_vars, debug_assertions, cfg_vars, used_handles, pool_vars, ubo_vars, sched_vars, event_vars,
                    frame_log, begin_frames, end_frames, depth_image, cmd_vars,
                    in_flight, drop_vars >>

\* main.rs:118-127
FramecountIncrement ==
    /\ At("framecount")
    /\ framecount' = framecount + 1
    /\ LoopAdvance
    /\ UNCHANGED << owner_vars, debug_assertions, cfg_vars, used_handles, pool_vars, ubo_vars, running, accumulator,
                    elapsed_time, frame_times, updates, event_vars, iter_log,
                    frame_log, count_vars, image_vars, cmd_vars, in_flight,
                    drop_vars >>

\* Mutant of ClosedArm: the Closed arm leaves `running` as it is.
ClosedArm_ignore(run, closed) == run

\* Mutant of ClosedArm: every polled batch of events, Closed or not, stops the loop.
ClosedArm_any(run, closed) == FALSE

\* main.rs:130-134: the closure's match; only the Closed arm clears `running`.
ClosedArm(run, closed) == IF closed THEN FALSE ELSE run

\* main.rs:129-135
PollEvents ==
    /\ At("poll_events")
    /\ iter_log' = Append(iter_log, "poll_events")
    /\ running' = ClosedArm(running, close_pending)
    /\ close_pending' = FALSE
    /\ close_observed' = (close_observed \/ close_pending)
    /\ LoopAdvance
    /\ UNCHANGED << owner_vars, debug_assertions, cfg_vars, used_handles, pool_vars, ubo_vars, framecount, accumulator,
                    elapsed_time, frame_times, updates, close_delivered,
                    closed_at_start, frame_log, count_vars, image_vars, cmd_vars, in_flight,
                    drop_vars >>

\* The windowing collaborator delivers winit::WindowEvent::Closed.
WindowClose ==
    /\ pc \in {"startup", "loop"}
    /\ ~close_delivered
    /\ close_pending' = TRUE
    /\ close_delivered' = TRUE
    /\ closed_at_start' = ~loop_entered
    /\ UNCHANGED << main_vars, owner_vars, debug_assertions, cfg_vars, used_handles, pool_vars, ubo_vars, sched_vars,
                    close_observed, iter_log, frame_log, count_vars, image_vars,
                    cmd_vars, in_flight, drop_vars >>

-----------------------------------------------------------------------------
(* MainPass::begin_frame, mainpass.rs:568-654 *)

\* One call made by begin_frame; the first one is where main enters begin_frame.
\* Every call but update_descriptor_sets is made on cmd_buf, which begin_frame returns.
BeginFrameCall(p) ==
    /\ At("begin_frame")
    /\ step \in 1..Len(begin_frame_body) /\ begin_frame_body[step] = p
    /\ WaitsForGpu(p) => in_flight = 0
    /\ iter_log' = IF step = 1 THEN Append(iter_log, "begin_frame") ELSE iter_log
    /\ begin_frames' = IF step = 1 THEN begin_frames + 1 ELSE begin_frames
    /\ frame_log' = Append(frame_log, p)
    /\ LET cmd_buf == FrameCommandBuffer(handles, begin_frames')
       IN  used_handles' = used_handles \cup HandlesOf(p)
              \cup (IF OnCommandBuffer(p) THEN { << "commandbuffer", cmd_buf >> } ELSE {})
              \cup (IF step = Len(begin_frame_body) THEN { << "returned", cmd_buf >> } ELSE {})
    /\ UNCHANGED << owner_vars, debug_assertions, cfg_vars, pool_vars, ubo_vars, sched_vars, event_vars,
                    end_frames, presents, depth_image, submits, in_flight,
                    drop_vars >>

\* mainpass.rs:579: begin_command_buffer(...).expect("Begin commandbuffer")
BeginCommandBuffer ==
    /\ BeginFrameCall("begin_command_buffer")
    /\ \E ok \in BOOLEAN :
          IF ok
             THEN /\ cb_state' = "recording"
                  /\ cb_flags' = cmd_buf_begin_flags
                  /\ barriers' = << >>
                  /\ bound_sets' = {}
                  /\ BodyAdvance(begin_frame_body)
             ELSE /\ Panic
                  /\ UNCHANGED << cb_state, cb_flags, barriers, bound_sets >>
    /\ UNCHANGED << render_image, in_render_pass, one_off_submits >>

\* mainpass.rs:583-589: transition_texture(&mut self.render_image, ..., Some(cmd_buf))
TransitionTexture ==
    /\ BeginFrameCall("transition_texture")
    /\ LET r == transition_texture(render_image, BeginFrameTarget, barriers)
       IN  /\ render_image' = r.image
           /\ IF transition_cmd_buf = "none"
                 THEN barriers' = barriers /\ one_off_submits' = one_off_submits + 1
                 ELSE barriers' = r.recorded /\ one_off_submits' = one_off_submits
    /\ BodyAdvance(begin_frame_body)
    /\ UNCHANGED << cb_state, in_render_pass, cb_flags, bound_sets >>

\* mainpass.rs:632
UpdateDescriptorSets ==
    /\ BeginFrameCall("update_descriptor_sets")
    /\ BodyAdvance(begin_frame_body)
    /\ UNCHANGED << render_image, cb_state, in_render_pass, barriers, cb_flags,
                    bound_sets, one_off_submits >>

\* mainpass.rs:635
CmdBeginRenderPass ==
    /\ BeginFrameCall("cmd_begin_render_pass")
    /\ in_render_pass' = TRUE
    /\ BodyAdvance(begin_frame_body)
    /\ UNCHANGED << render_image, cb_state, barriers, cb_flags, bound_sets,
                    one_off_submits >>

\* mainpass.rs:637-644
CmdBindDescriptorSets ==
    /\ BeginFrameCall("cmd_bind_descriptor_sets")
    /\ bound_sets' = bound_sets \cup { << first_set, "view_matrix_ds[0]" >> }
    /\ BodyAdvance(begin_frame_body)
    /\ UNCHANGED << render_image, cb_state, in_render_pass, barriers, cb_flags,
                    one_off_submits >>

\* mainpass.rs:647
CmdBindPipeline ==
    /\ BeginFrameCall("cmd_bind_pipeline")
    /\ BodyAdvance(begin_frame_body)
    /\ UNCHANGED << render_image, cb_state, in_render_pass, barriers, cb_flags,
                    bound_sets, one_off_submits >>

\* mainpass.rs:649
CmdSetViewport ==
    /\ BeginFrameCall("cmd_set_viewport")
    /\ BodyAdvance(begin_frame_body)
    /\ UNCHANGED << render_image, cb_state, in_render_pass, barriers, cb_flags,
                    bound_sets, one_off_submits >>

\* mainpass.rs:650
CmdSetScissor ==
    /\ BeginFrameCall("cmd_set_scissor")
    /\ BodyAdvance(begin_frame_body)
    /\ UNCHANGED << render_image, cb_state, in_render_pass, barriers, cb_flags,
                    bound_sets, one_off_submits >>

-----------------------------------------------------------------------------
(* MainPass::end_frame, mainpass.rs:657-682 *)

EndFrameCall(p) ==
    /\ At("end_frame")
    /\ step \in 1..Len(end_frame_body) /\ end_frame_body[step] = p
    /\ WaitsForGpu(p) => in_flight = 0
    /\ iter_log' = IF step = 1 THEN Append(iter_log, "end_frame") ELSE iter_log
    /\ end_frames' = IF step = 1 THEN end_frames + 1 ELSE end_frames
    /\ frame_log' = Append(frame_log, p)
    /\ used_handles' = used_handles
          \cup { << "commandbuffer", FrameCommandBuffer(handles, begin_frames) >> }
    /\ UNCHANGED << owner_vars, debug_assertions, cfg_vars, pool_vars, ubo_vars, sched_vars, event_vars,
                    begin_frames, presents, image_vars, barriers, cb_flags,
                    bound_sets, one_off_submits, drop_vars >>

\* mainpass.rs:663
CmdEndRenderPass ==
    /\ EndFrameCall("cmd_end_render_pass")
    /\ in_render_pass' = FALSE
    /\ BodyAdvance(end_frame_body)
    /\ UNCHANGED << cb_state, submits, in_flight >>

\* mainpass.rs:664: end_command_buffer(cmd_buf).expect("End commandbuffer")
EndCommandBuffer ==
    /\ EndFrameCall("end_command_buffer")
    /\ \E ok \in BOOLEAN :
          IF ok
             THEN /\ cb_state' = "executable"
                  /\ BodyAdvance(end_frame_body)
             ELSE /\ cb_state' = "invalid"
                  /\ Panic
    /\ UNCHANGED << in_render_pass, submits, in_flight >>

\* mainpass.rs:668-681: queue_submit(...).expect("queue submit failed.")
QueueSubmit ==
    /\ EndFrameCall("queue_submit")
    /\ \E ok \in BOOLEAN :
          IF ok
             THEN /\ submits' = Append(submits, [ info |-> EndFrameSubmitInfo,
                                                  uniform |-> view_matrix_ub_mem,
                                                  cb_state |-> cb_state,
                                                  in_render_pass |-> in_render_pass ])
                  /\ in_flight' = in_flight + 1
                  /\ BodyAdvance(end_frame_body)
             ELSE /\ Panic
                  /\ UNCHANGED << submits, in_flight >>
    /\ UNCHANGED << cb_state, in_render_pass >>

\* The GPU finishes executing the oldest submission, asynchronously to the CPU thread.
GpuComplete ==
    /\ in_flight > 0
    /\ in_flight' = in_flight - 1
    /\ UNCHANGED << main_vars, owner_vars, debug_assertions, cfg_vars, used_handles, pool_vars, ubo_vars, sched_vars,
                    event_vars, iter_log, frame_log, count_vars, image_vars,
                    cmd_vars, drop_vars >>

-----------------------------------------------------------------------------
(* Teardown: scope exit of main (main.rs:139) and impl Drop for MainPass *)

\* The next local of main goes out of scope, or none is left and the process ends.
ScopeDrop ==
    /\ pc = "drop" /\ dropping = "none"
    /\ IF alive = {}
          THEN /\ pc' = IF panicking THEN "panicked" ELSE "exited"
               /\ UNCHANGED dropping
          ELSE /\ dropping' = LastDeclared(alive)
               /\ UNCHANGED pc
    /\ step' = 1
    /\ UNCHANGED << loop_entered, stmt, panicking, owner_vars, debug_assertions, cfg_vars, used_handles, pool_vars, ubo_vars, sched_vars,
                    event_vars, iter_log, frame_log, count_vars, image_vars,
                    cmd_vars, in_flight, drop_vars >>

\* The holder of an Rc<Device> is dropped: its reference is released.
Release(c) ==
    /\ alive' = alive \ {c}
    /\ strong_count' = strong_count - 1
    /\ dropping' = "none"
    /\ step' = 1

DropScene ==
    /\ dropping = "scene"
    /\ Release("scene")
    /\ UNCHANGED << pc, loop_entered, stmt, panicking, device_destroyed, debug_assertions, cfg_vars, used_handles, pool_vars, ubo_vars,
                    sched_vars, event_vars, iter_log, frame_log, count_vars,
                    image_vars, cmd_vars, in_flight, drop_vars >>

DropPresentPass ==
    /\ dropping = "presentpass"
    /\ Release("presentpass")
    /\ UNCHANGED << pc, loop_entered, stmt, panicking, device_destroyed, debug_assertions, cfg_vars, used_handles, pool_vars, ubo_vars,
                    sched_vars, event_vars, iter_log, frame_log, count_vars,
                    image_vars, cmd_vars, in_flight, drop_vars >>

\* The Device Context is torn down: it destroys the device and releases its reference.
DropRenderState ==
    /\ dropping = "renderstate"
    /\ Release("renderstate")
    /\ device_destroyed' = TRUE
    /\ UNCHANGED << pc, loop_entered, stmt, panicking, debug_assertions, cfg_vars, used_handles, pool_vars, ubo_vars, sched_vars,
                    event_vars, iter_log, frame_log, count_vars, image_vars,
                    cmd_vars, in_flight, drop_vars >>

InMainPassDrop(calls) ==
    /\ dropping = "mainpass"
    /\ step \in 1..Len(MainPassDrop_body)
    /\ MainPassDrop_body[step].call \in calls

\* What the i-th call of MainPass::drop leaves in the history.
TeardownEntry(i) ==
    [ call |-> MainPassDrop_body[i].call, obj |-> MainPassDrop_body[i].obj,
      strong_count |-> strong_count, idle |-> in_flight = 0 ]

\* A panic inside MainPass::drop: the fields, the Rc<Device> among them, are still dropped.
DropPanic ==
    /\ pc' = IF panicking THEN "aborted" ELSE pc
    /\ panicking' = TRUE
    /\ Release("mainpass")
    /\ stmt' = stmt
    /\ loop_entered' = loop_entered

\* mainpass.rs:690: debug_assert!(1 < Rc::strong_count(&self.device))
DebugAssert ==
    /\ InMainPassDrop({"debug_assert"})
    /\ IF debug_assertions /\ ~(1 < strong_count)
          THEN DropPanic
          ELSE /\ step' = step + 1
               /\ UNCHANGED << pc, loop_entered, stmt, panicking, dropping, alive, strong_count >>
    /\ UNCHANGED << device_destroyed, debug_assertions, cfg_vars, used_handles, pool_vars, ubo_vars, sched_vars, event_vars,
                    iter_log, frame_log, count_vars, image_vars, cmd_vars,
                    in_flight, drop_vars >>

\* mainpass.rs:694: device_wait_idle().unwrap() returns once the GPU is idle.
DeviceWaitIdle ==
    /\ InMainPassDrop({"device_wait_idle"})
    /\ WaitsForGpu("device_wait_idle") => in_flight = 0
    /\ teardown_log' = Append(teardown_log, TeardownEntry(step))
    /\ \E ok \in BOOLEAN :
          IF ok
             THEN /\ step' = step + 1
                  /\ UNCHANGED << pc, loop_entered, stmt, panicking, dropping, alive, strong_count >>
             ELSE DropPanic
    /\ UNCHANGED << device_destroyed, debug_assertions, cfg_vars, used_handles, pool_vars, ubo_vars, sched_vars, event_vars,
                    iter_log, frame_log, count_vars, image_vars, cmd_vars,
                    in_flight, live >>

\* mainpass.rs:696-721: the destroy_* / free_memory calls, none of which returns a
\* result or blocks, made one after the other up to the end of drop (or to the
\* next call that is not one of them).
DestroyCalls ==
    { e.call : e \in { MainPassDrop_body[i] : i \in 1..Len(MainPassDrop_body) } }
       \ {"debug_assert", "device_wait_idle"}

DestroyRunEnd ==
    CHOOSE j \in step..Len(MainPassDrop_body) :
        /\ \A i \in step..j : MainPassDrop_body[i].call \in DestroyCalls
        /\ j < Len(MainPassDrop_body) => MainPassDrop_body[j + 1].call \notin DestroyCalls

Destroy ==
    /\ InMainPassDrop(DestroyCalls)
    /\ teardown_log' = teardown_log \o [ i \in 1..(DestroyRunEnd - step + 1) |->
                                             TeardownEntry(step + i - 1) ]
    /\ live' = live \ { MainPassDrop_body[i].obj : i \in step..DestroyRunEnd }
    /\ step' = DestroyRunEnd + 1
    /\ UNCHANGED << pc, loop_entered, stmt, panicking, dropping, owner_vars, debug_assertions, cfg_vars, used_handles, pool_vars, ubo_vars,
                    sched_vars, event_vars, iter_log, frame_log, count_vars,
                    image_vars, cmd_vars, in_flight >>

\* mainpass.rs:723: drop returns; the fields, the Rc<Device> among them, are dropped.
MainPassDropReturn ==
    /\ dropping = "mainpass"
    /\ step = Len(MainPassDrop_body) + 1
    /\ Release("mainpass")
    /\ UNCHANGED << pc, loop_entered, stmt, panicking, device_destroyed, debug_assertions, cfg_vars, used_handles, pool_vars, ubo_vars,
                    sched_vars, event_vars, iter_log, frame_log, count_vars,
                    image_vars, cmd_vars, in_flight, drop_vars >>

-----------------------------------------------------------------------------
(* The program: main, with the GPU and the window system as its environment *)

Next ==
    \/ RenderStateInit \/ PresentPassInit \/ MainPassInit \/ SceneNew
    \/ WhileRunning \/ MeasureFrameTime \/ SceneUpdate \/ DrainDone
    \/ GenerateViewMatrix
    \/ BeginCommandBuffer \/ TransitionTexture \/ UpdateDescriptorSets
    \/ CmdBeginRenderPass \/ CmdBindDescriptorSets \/ CmdBindPipeline
    \/ CmdSetViewport \/ CmdSetScissor
    \/ SceneDraw
    \/ CmdEndRenderPass \/ EndCommandBuffer \/ QueueSubmit
    \/ PresentImage \/ FramecountIncrement \/ PollEvents
    \/ WindowClose \/ GpuComplete
    \/ ScopeDrop \/ DropScene \/ DropPresentPass \/ DropRenderState
    \/ DebugAssert \/ DeviceWaitIdle \/ Destroy \/ MainPassDropReturn

Spec == Init /\ [][Next]_vars

\* A client other than main: the components are constructed as in main.rs:26-29
\* and then dropped in whatever order their owner chooses (MainPass::init returns
\* a value that borrows nothing from the RenderState).
InitClient ==
    /\ pc = "client" /\ loop_entered = FALSE /\ stmt = 0 /\ step = 1
    /\ panicking = FALSE /\ dropping = "none"
    /\ alive = { main_init_body[i] : i \in 1..Len(main_init_body) }
    /\ strong_count = Len(main_init_body) /\ device_destroyed = FALSE
    /\ debug_assertions \in BOOLEAN
    /\ running = TRUE /\ framecount = 0
    /\ accumulator = 0 /\ elapsed_time = 0
    /\ frame_times = << >> /\ updates = << >>
    /\ close_pending = FALSE /\ close_delivered = FALSE /\ close_observed = FALSE
    /\ closed_at_start = FALSE
    /\ iter_log = << >> /\ frame_log = << >>
    /\ begin_frames = 0 /\ end_frames = 0 /\ presents = 0
    /\ render_image = RenderImageInitialUsage /\ depth_image = DepthImageInitialUsage
    /\ cb_state = "initial" /\ in_render_pass = FALSE
    /\ barriers = << >> /\ cb_flags = {} /\ bound_sets = {}
    /\ submits = << >> /\ one_off_submits = 0 /\ in_flight = 0
    /\ live = MainPassObjects /\ teardown_log = << >>
    /\ descriptor_pool = Allocated(EmptyPool, "view_matrix") /\ alloc_requests = 1
    /\ last_alloc = [layout |-> "view_matrix", sets_before |-> 0, fits |-> TRUE, ok |-> TRUE]
    /\ view_matrix = 0 /\ view_matrix_ub_mem = 0
    /\ cfg = [ render_width |-> 800, render_height |-> 600 ]
    /\ mainpass = MainPassSizes(render_size)
    /\ handles = MainPassHandles /\ used_handles = {}

ClientDrop ==
    /\ pc = "client" /\ dropping = "none"
    /\ \E c \in alive : dropping' = c
    /\ step' = 1
    /\ UNCHANGED << pc, loop_entered, stmt, panicking, owner_vars, debug_assertions, cfg_vars, used_handles, pool_vars, ubo_vars,
                    sched_vars, event_vars, iter_log, frame_log, count_vars,
                    image_vars, cmd_vars, in_flight, drop_vars >>

NextClient ==
    \/ ClientDrop \/ DropScene \/ DropPresentPass \/ DropRenderState
    \/ DebugAssert \/ DeviceWaitIdle \/ Destroy \/ MainPassDropReturn

SpecClient == InitClient /\ [][NextClient]_vars

\* Owners of drawables allocate their material sets from the public
\* MainPass.descriptor_pool after MainPass::init has allocated the view-matrix
\* set.  allocate_descriptor_sets returns a Result (mainpass.rs:540): a request
\* that fits may still fail (out of memory); the program keeps no count of its
\* own, and a request beyond max_sets or beyond the descriptor counts is outside
\* what Vulkan 1.0 allows an application to ask, so whether the device refuses
\* it or allocates all the same is up to the implementation.
AllocateDescriptorSets ==
    /\ pc = "client" /\ dropping = "none"
    /\ alloc_requests < MaxAllocs
    /\ \E layout \in DOMAIN LayoutDescriptors, ok \in BOOLEAN :
          /\ descriptor_pool' = IF ok THEN Allocated(descriptor_pool, layout)
                                      ELSE descriptor_pool
          /\ last_alloc' = [ layout |-> layout, sets_before |-> descriptor_pool.sets,
                             fits |-> Fits(descriptor_pool, layout), ok |-> ok ]
    /\ alloc_requests' = alloc_requests + 1
    /\ UNCHANGED << main_vars, owner_vars, debug_assertions, cfg_vars, used_handles, ubo_vars, sched_vars, event_vars,
                    iter_log, frame_log, count_vars, image_vars, cmd_vars,
                    in_flight, drop_vars >>

NextPool == AllocateDescriptorSets

SpecPool == InitClient /\ [][NextPool]_vars

\* MainPass::init for every configuration: main has constructed the RenderState
\* and the PresentPass and is about to construct the MainPass.
InitConfig ==
    /\ pc = "startup" /\ loop_entered = FALSE /\ stmt = 3 /\ step = 1
    /\ panicking = FALSE /\ dropping = "none"
    /\ alive = {"renderstate", "presentpass"}
    /\ strong_count = 2 /\ device_destroyed = FALSE
    /\ debug_assertions \in BOOLEAN
    /\ running = TRUE /\ framecount = 0
    /\ accumulator = 0 /\ elapsed_time = 0
    /\ frame_times = << >> /\ updates = << >>
    /\ close_pending = FALSE /\ close_delivered = FALSE /\ close_observed = FALSE
    /\ closed_at_start = FALSE
    /\ iter_log = << >> /\ frame_log = << >>
    /\ begin_frames = 0 /\ end_frames = 0 /\ presents = 0
    /\ render_image = NoUsage /\ depth_image = NoUsage
    /\ cb_state = "initial" /\ in_render_pass = FALSE
    /\ barriers = << >> /\ cb_flags = {} /\ bound_sets = {}
    /\ submits = << >> /\ one_off_submits = 0 /\ in_flight = 0
    /\ live = {} /\ teardown_log = << >>
    /\ descriptor_pool = EmptyPool /\ alloc_requests = 0 /\ last_alloc = NoAlloc
    /\ view_matrix = 0 /\ view_matrix_ub_mem = 0
    /\ cfg \in [ render_width : RenderWidths, render_height : RenderHeights ]
    /\ mainpass = NoMainPass /\ handles = NoHandles /\ used_handles = {}

NextConfig == MainPassInit

SpecConfig == InitConfig /\ [][NextConfig]_vars

\* The CPU thread runs whenever it can, and the GPU finishes what was submitted;
\* the windowing collaborator is under no obligation to ever deliver Closed.
FairSpec == Spec /\ WF_vars(Next)

-----------------------------------------------------------------------------
(* Helpers of the properties *)

RECURSIVE SumSeq(_)
SumSeq(q) == IF q = << >> THEN 0 ELSE Head(q) + SumSeq(Tail(q))

IsPrefix(p, q) == Len(p) <= Len(q) /\ SubSeq(q, 1, Len(p)) = p

Min(a, b) == IF a < b THEN a ELSE b

\* The main thread is at the loop condition, between outer iterations.
BetweenIterations == pc = "loop" /\ stmt = 0

-----------------------------------------------------------------------------
(* C1: for every sequence of non-negative frame times the accumulator is    *)
(* never negative and, after each outer iteration, the number of            *)
(* scene.update calls made so far is floor(sum of frame times / 17 ms);     *)
(* frame times 20, 20, 5 give 1, 1, 0 steps and leave 11 ms.                *)
C1_FixedTimestep ==
    /\ accumulator >= 0
    /\ BetweenIterations => SumSeq(updates) = SumSeq(frame_times) \div 17
    /\ (BetweenIterations /\ frame_times = << 20, 20, 5 >>)
          => (updates = << 1, 1, 0 >> /\ accumulator = 11)

C1_Witness == BetweenIterations /\ frame_times = << 20, 20, 5 >>

-----------------------------------------------------------------------------
(* C2 (as claimed): command-buffer recording is balanced in every           *)
(* execution: at most one begin_frame is unmatched at any time and every    *)
(* begin_frame is eventually followed by its end_frame, so a process that   *)
(* has left the frame loop has no begin_frame without its end_frame.        *)
C2_Original ==
    /\ begin_frames - end_frames \in {0, 1}
    /\ pc \notin {"startup", "loop"} => begin_frames = end_frames

\* begin_frame has returned to main and end_frame has not been entered yet.
BeginFrameReturned ==
    pc = "loop" /\ ~At("begin_frame") /\ begin_frames = end_frames + 1

(* C2 (amended): between two consecutive begin_frame calls there is exactly *)
(* one end_frame call, end_frame is never called without an unmatched       *)
(* begin_frame, and every begin_frame that returns is eventually followed   *)
(* by its end_frame (a begin_frame whose begin_command_buffer fails panics  *)
(* instead of returning).                                                   *)
C2_Balanced ==
    /\ [](begin_frames - end_frames \in {0, 1})
    /\ [][begin_frames' # begin_frames => begin_frames = end_frames]_vars
    /\ [][end_frames' # end_frames => begin_frames = end_frames + 1]_vars
    /\ (BeginFrameReturned ~> (begin_frames = end_frames))

C2_Witness == begin_frames = 2 /\ end_frames = 1 /\ At("scene.draw")

-----------------------------------------------------------------------------
\* The colour-attachment usage state, as the claims spell it out.
ColourAttachmentState ==
    [ access |-> {"COLOR_ATTACHMENT_READ", "COLOR_ATTACHMENT_WRITE"},
      layout |-> "ColorAttachmentOptimal",
      stage  |-> "COLOR_ATTACHMENT_OUTPUT" ]

Range(q) == { q[i] : i \in DOMAIN q }

\* begin_frame has made its transition_texture call and the frame is not yet presented.
AfterTransition ==
    pc = "loop" /\ "transition_texture" \in Range(frame_log)
                /\ "present_image" \notin Range(iter_log)

-----------------------------------------------------------------------------
ClaimedTeardown ==
    << << "device_wait_idle", "device" >>,
       << "destroy_buffer", "view_matrix_ub" >>,
       << "free_memory", "view_matrix_ub_mem" >>,
       << "destroy_sampler", "depth_image.sampler" >>,
       << "destroy_image_view", "depth_image.view" >>,
       << "destroy_image", "depth_image.image" >>,
       << "free_memory", "depth_image.memory" >>,
       << "destroy_sampler", "render_image.sampler" >>,
       << "destroy_image_view", "render_image.view" >>,
       << "destroy_image", "render_image.image" >>,
       << "free_memory", "render_image.memory" >>,
       << "destroy_framebuffer", "framebuffer" >>,
       << "destroy_pipeline", "pipeline" >>,
       << "destroy_pipeline_layout", "pipeline_layout" >>,
       << "destroy_descriptor_set_layout", "descriptor_set_layouts[0]" >>,
       << "destroy_descriptor_set_layout", "descriptor_set_layouts[1]" >>,
       << "destroy_descriptor_pool", "descriptor_pool" >>,
       << "destroy_render_pass", "renderpass" >> >>

TeardownCalls == [ i \in DOMAIN teardown_log |-> << teardown_log[i].call, teardown_log[i].obj >> ]

PositionIn(q, x) == CHOOSE i \in DOMAIN q : q[i] = x

(* C4: MainPass teardown first waits for the device to be idle, makes no    *)
(* destroy/free call before that wait, and then releases the uniform buffer *)
(* and its memory, the depth image, the colour image, the framebuffer, the  *)
(* pipeline, its layout, the descriptor-set layouts, the descriptor pool    *)
(* and last the render pass, in that order.                                 *)
C4_TeardownOrder ==
    /\ IsPrefix(TeardownCalls, ClaimedTeardown)
    /\ \A i \in DOMAIN teardown_log : teardown_log[i].idle
    /\ Len(teardown_log) > 1 =>
          /\ TeardownCalls = ClaimedTeardown
          /\ live = {}
          /\ PositionIn(TeardownCalls, << "destroy_framebuffer", "framebuffer" >>)
                < PositionIn(TeardownCalls, << "destroy_render_pass", "renderpass" >>)
          /\ PositionIn(TeardownCalls, << "destroy_pipeline", "pipeline" >>)
                < PositionIn(TeardownCalls, << "destroy_render_pass", "renderpass" >>)
    /\ ("mainpass" \in alive /\ Len(teardown_log) <= 1) => live = MainPassObjects

C4_Witness ==
    /\ TeardownCalls = ClaimedTeardown
    /\ framecount > 0

-----------------------------------------------------------------------------
(* C5: a MainPass torn down while it holds the only remaining reference to  *)
(* the device fails its assertion before it waits for the device or         *)
(* destroys anything: no teardown call is ever made on a device that no     *)
(* other owner holds.                                                       *)
C5_AssertionGuardsTeardown ==
    /\ \A i \in DOMAIN teardown_log : teardown_log[i].strong_count > 1
    /\ (dropping = "mainpass" /\ strong_count = 1) => step = 1

-----------------------------------------------------------------------------
(* C6: the Device Context is created before and destroyed after every       *)
(* component holding its device: whenever the Scene, the MainPass or the    *)
(* PresentPass exists so does the RenderState, the RenderState is torn down *)
(* last, and MainPass teardown always runs with a reference count above 1.  *)
C6_DeviceContextOutlives ==
    /\ alive \cap {"presentpass", "mainpass", "scene"} # {} => "renderstate" \in alive
    /\ dropping = "renderstate" => alive = {"renderstate"}
    /\ device_destroyed => alive = {}
    /\ dropping = "mainpass" => 1 < strong_count
    /\ \A i \in DOMAIN teardown_log : teardown_log[i].strong_count > 1

C6_Witness ==
    /\ dropping = "mainpass" /\ step = 2
    /\ ~panicking /\ close_observed

-----------------------------------------------------------------------------
ClaimedIteration ==
    << "begin_frame", "scene.draw", "end_frame", "present_image", "poll_events" >>

\* The number of "scene.update" entries a log starts with.
LeadingUpdates(log) ==
    CHOOSE n \in 0..Len(log) :
        /\ \A i \in 1..n : log[i] = "scene.update"
        /\ n < Len(log) => log[n + 1] # "scene.update"

(* C7: every outer iteration makes zero or more scene.update calls, then    *)
(* exactly one begin_frame, scene.draw, one end_frame, one present_image    *)
(* and one poll of window events, in this order, however many simulation    *)
(* steps it took; no simulation step falls between begin_frame and          *)
(* present_image.                                                           *)
C7_IterationOrder ==
    LET n    == LeadingUpdates(iter_log)
        rest == SubSeq(iter_log, n + 1, Len(iter_log))
    IN  /\ IsPrefix(rest, ClaimedIteration)
        /\ (BetweenIterations /\ frame_times # << >>) =>
              /\ rest = ClaimedIteration
              /\ n = updates[Len(updates)]
              /\ begin_frames = Len(frame_times)
              /\ end_frames = Len(frame_times)
              /\ presents = Len(frame_times)

C7_Witness ==
    /\ BetweenIterations /\ updates # << >>
    /\ updates[Len(updates)] = 2
    /\ iter_log = << "scene.update", "scene.update" >> \o ClaimedIteration

-----------------------------------------------------------------------------
(* C8 (as claimed): the loop has exactly one exit path: in every state      *)
(* where the loop has ended a close event was delivered earlier, and after  *)
(* the close event has been observed main is never inside the loop body     *)
(* again.                                                                   *)
C8_Original ==
    /\ (loop_entered /\ pc # "loop") => close_delivered
    /\ close_observed => (pc = "loop" => stmt = 0)

(* C8 (amended): the loop has exactly one normal exit path, the loop        *)
(* condition read after a poll has observed a delivered close event; the    *)
(* only other way the loop ends is a panic of a failed call, which          *)
(* terminates the process.  The close event is polled once per outer        *)
(* iteration, and after it has been observed main is never inside the loop  *)
(* body again.                                                              *)
C8_CloseIsTheOnlyNormalExit ==
    /\ (loop_entered /\ pc # "loop") =>
          \/ ~running /\ close_observed
          \/ running /\ panicking
    /\ ~running <=> close_observed
    /\ close_observed => close_delivered
    /\ close_observed => (pc = "loop" => stmt = 0)
    /\ Cardinality({ i \in DOMAIN iter_log : iter_log[i] = "poll_events" }) <= 1

C8_Witness == pc = "exited" /\ close_observed /\ ~panicking /\ framecount = 2

-----------------------------------------------------------------------------
\* The calls begin_frame has made so far in the current frame.
BeginFrameCalls == SubSeq(frame_log, 1, Min(Len(frame_log), Len(begin_frame_body)))

\* The calls end_frame has made so far in the current frame.
EndFrameCalls == SubSeq(frame_log, Len(begin_frame_body) + 1, Len(frame_log))

(* C9 (as claimed): begin_frame transitions the colour image, then begins   *)
(* command-buffer recording, then updates the descriptor set, begins the    *)
(* render pass, binds the descriptor set, binds the pipeline and sets       *)
(* viewport and scissor.                                                    *)
C9_Original ==
    IsPrefix(BeginFrameCalls,
             << "transition_texture", "begin_command_buffer", "update_descriptor_sets",
                "cmd_begin_render_pass", "cmd_bind_descriptor_sets", "cmd_bind_pipeline",
                "cmd_set_viewport", "cmd_set_scissor" >>)

ClaimedBeginFrame ==
    << "begin_command_buffer", "transition_texture", "update_descriptor_sets",
       "cmd_begin_render_pass", "cmd_bind_descriptor_sets", "cmd_bind_pipeline",
       "cmd_set_viewport", "cmd_set_scissor" >>

(* C9 (amended): begin_frame begins command-buffer recording (flagged for   *)
(* simultaneous use) first, then transitions the colour image, recording    *)
(* the barrier into that command buffer, then updates the descriptor set,   *)
(* begins the render pass, binds the view-matrix descriptor set at set      *)
(* index 1, binds the pipeline, sets viewport and scissor and returns.      *)
C9_BeginFrameOrder ==
    /\ IsPrefix(BeginFrameCalls, ClaimedBeginFrame)
    /\ (pc = "loop" /\ "transition_texture" \in Range(frame_log)) =>
          /\ "begin_command_buffer" \in Range(frame_log)
          /\ cb_flags = {"SIMULTANEOUS_USE"}
    /\ (pc = "loop" /\ "cmd_bind_descriptor_sets" \in Range(frame_log)) =>
          bound_sets = { << 1, "view_matrix_ds[0]" >> }
    /\ At("scene.draw") =>
          /\ BeginFrameCalls = ClaimedBeginFrame
          /\ cb_state = "recording" /\ in_render_pass

C9_Witness == At("scene.draw") /\ framecount = 1 /\ BeginFrameCalls = ClaimedBeginFrame

-----------------------------------------------------------------------------
(* C10: end_frame ends the render pass, then ends command-buffer recording, *)
(* then submits exactly one command buffer exactly once to the graphics     *)
(* queue with no wait semaphore, no signal semaphore and no fence; nothing  *)
(* is submitted while the command buffer is recording or the render pass is *)
(* open.                                                                    *)
C10_EndFrameSubmitsOnce ==
    /\ IsPrefix(EndFrameCalls, << "cmd_end_render_pass", "end_command_buffer", "queue_submit" >>)
    /\ Len(submits) <= 1
    /\ \A i \in DOMAIN submits :
          /\ submits[i].info.command_buffers = << "commandbuffer" >>
          /\ submits[i].info.wait_semaphores = 0
          /\ submits[i].info.signal_semaphores = 0
          /\ submits[i].info.fence = "null"
          /\ submits[i].info.queue = "graphics_queue"
          /\ submits[i].cb_state = "executable"
          /\ ~submits[i].in_render_pass
    /\ At("present_image") =>
          /\ Len(submits) = 1
          /\ EndFrameCalls = << "cmd_end_render_pass", "end_command_buffer", "queue_submit" >>
          /\ cb_state = "executable" /\ ~in_render_pass

C10_Witness == At("present_image") /\ Len(submits) = 1 /\ framecount = 1

-----------------------------------------------------------------------------
\* The calls main makes in one iteration, directly or through begin_frame and
\* end_frame, other than the begin_command_buffer that starts the re-recording.
IterationCalls ==
    (Range(main_loop_body) \cup Range(begin_frame_body) \cup Range(end_frame_body))
        \ {"begin_command_buffer"}

(* C11: nothing orders the GPU's execution of frame n's submission and the  *)
(* re-recording of the single command buffer by begin_frame of frame n+1:   *)
(* the submission carries no fence and no semaphore, no call of an          *)
(* iteration waits for the device, and begin_command_buffer can be made     *)
(* whenever main reaches it, whether or not earlier submissions are still   *)
(* executing; so a state where recording has begun again while a            *)
(* submission is in flight is reachable.                                    *)
C11_ReuseNotOrdered ==
    /\ (At("begin_frame") /\ step = 1) => ENABLED BeginCommandBuffer
    /\ \A c \in IterationCalls : ~WaitsForGpu(c)
    /\ \A i \in DOMAIN submits :
          /\ submits[i].info.fence = "null"
          /\ submits[i].info.wait_semaphores + submits[i].info.signal_semaphores = 0
    /\ in_flight \in 0..end_frames

C11_Witness ==
    /\ At("begin_frame") /\ step = 2 /\ cb_state = "recording"
    /\ begin_frames = 2 /\ end_frames = 1 /\ in_flight = 1

-----------------------------------------------------------------------------
\* The fallible calls of a frame: mainpass.rs:579, 664, 680.
FrameOperations == { "begin_command_buffer", "end_command_buffer", "queue_submit" }

\* The calls of a frame whose begin_frame and end_frame both completed.
CompleteFrame == begin_frame_body \o end_frame_body

\* A call of the current frame's begin_frame or end_frame has panicked.
FrameOperationFailed ==
    /\ panicking /\ loop_entered
    /\ frame_log # << >> /\ "present_image" \notin Range(iter_log)

(* C12: if begin_command_buffer, end_command_buffer or queue_submit fails   *)
(* in some frame the process terminates at that call: present_image is not  *)
(* called for that frame, no later frame is started, and a frame is         *)
(* presented only if its begin_frame and end_frame both completed and its   *)
(* command buffer was submitted.                                            *)
C12_FailedFrameNotPresented ==
    /\ []("present_image" \in Range(iter_log) =>
             frame_log = CompleteFrame /\ Len(submits) = 1)
    /\ [](FrameOperationFailed =>
             /\ pc # "loop"
             /\ frame_log[Len(frame_log)] \in FrameOperations
             /\ submits = << >>
             /\ presents = begin_frames - 1)
    /\ [](presents <= end_frames /\ end_frames <= begin_frames)
    /\ [][panicking => /\ begin_frames' = begin_frames
                       /\ end_frames' = end_frames
                       /\ presents' = presents
                       /\ frame_log' = frame_log]_vars
    /\ (FrameOperationFailed ~> (pc \in {"panicked", "aborted"}))

C12_Witness ==
    /\ pc = "panicked" /\ FrameOperationFailed
    /\ frame_log = CompleteFrame /\ begin_frames = 2 /\ presents = 1

-----------------------------------------------------------------------------
(* C13: the descriptor pool is created for at most 8 sets; once 8 sets are  *)
(* allocated from it the next allocation request fails, and the number of   *)
(* sets allocated from the pool never exceeds 8.                            *)
C13_PoolRejectsBeyondMax ==
    /\ max_sets = 8
    /\ descriptor_pool.sets <= 8
    /\ last_alloc.sets_before >= 8 => ~last_alloc.ok

-----------------------------------------------------------------------------
\* The drain loop of the current iteration has finished: main is at a
\* statement after it, or back at the loop condition.
Drained ==
    /\ pc = "loop" /\ frame_times # << >>
    /\ stmt = 0 \/ \E i \in 1..(stmt - 1) : main_loop_body[i] = "drain"

(* C14: where the drain loop has finished and rendering starts the          *)
(* accumulator is strictly less than the fixed step of 17 ms; the leftover  *)
(* is carried unchanged into the next iteration: the accumulator is only    *)
(* ever changed by adding the new frame time and by subtracting one fixed   *)
(* step per simulation step.                                                *)
C14_LeftoverBelowStep ==
    /\ [](Drained => accumulator \in 0..16)
    /\ [](Drained => accumulator = SumSeq(frame_times) - 17 * SumSeq(updates))
    /\ [][accumulator' # accumulator =>
             \/ /\ At("frame_time")
                /\ Len(frame_times') = Len(frame_times) + 1
                /\ accumulator' = accumulator + frame_times'[Len(frame_times')]
             \/ /\ At("drain")
                /\ SumSeq(updates') = SumSeq(updates) + 1
                /\ accumulator' = accumulator - 17]_vars

C14_Witness ==
    /\ At("generate_view_matrix")
    /\ frame_times = << 5, 5, 40 >> /\ updates = << 0, 0, 2 >>
    /\ accumulator = 16

-----------------------------------------------------------------------------
(* C15: each drained step calls scene.update exactly once and advances      *)
(* elapsed_time by exactly 17 ms, so elapsed_time is always 17 ms times the *)
(* number of scene.update calls made so far, and at every boundary between  *)
(* outer iterations elapsed_time + accumulator is the sum of all frame      *)
(* times measured so far.                                                   *)
C15_ElapsedTime ==
    /\ [](elapsed_time = 17 * SumSeq(updates))
    /\ [](BetweenIterations => elapsed_time + accumulator = SumSeq(frame_times))
    /\ [][(elapsed_time' # elapsed_time \/ SumSeq(updates') # SumSeq(updates)) =>
             /\ elapsed_time' = elapsed_time + 17
             /\ SumSeq(updates') = SumSeq(updates) + 1
             /\ Len(iter_log') = Len(iter_log) + 1
             /\ iter_log'[Len(iter_log')] = "scene.update"]_vars

C15_Witness ==
    /\ BetweenIterations
    /\ frame_times = << 40, 5, 20 >>
    /\ elapsed_time = 51 /\ accumulator = 14

-----------------------------------------------------------------------------
-----------------------------------------------------------------------------
\* MainPass::init has returned.
MainPassConstructed == "mainpass" \in alive

(* C17: for every configured render width and height MainPass::init gives a *)
(* colour image and a depth image of the configured size, a framebuffer of  *)
(* the same width and height, and a viewport and a scissor (the render area *)
(* too) covering exactly 0,0 to width,height; the colour image is first     *)
(* tracked in ColorAttachmentOptimal and the depth image in                 *)
(* DepthStencilAttachmentOptimal; 800x600 gives all of these at 800x600.    *)
C17_SizedToConfig ==
    MainPassConstructed =>
       LET w == cfg.render_width
           h == cfg.render_height
       IN  /\ mainpass.render_image.width = w /\ mainpass.render_image.height = h
           /\ mainpass.depth_image.width = w /\ mainpass.depth_image.height = h
           /\ mainpass.framebuffer.width = w /\ mainpass.framebuffer.height = h
           /\ mainpass.viewport.x = 0 /\ mainpass.viewport.y = 0
           /\ mainpass.viewport.width = w /\ mainpass.viewport.height = h
           /\ mainpass.scissor.offset = [ x |-> 0, y |-> 0 ]
           /\ mainpass.scissor.extent = [ width |-> w, height |-> h ]
           /\ render_area = [ offset |-> [ x |-> 0, y |-> 0 ],
                              extent |-> [ width |-> w, height |-> h ] ]
           /\ render_image.layout = "ColorAttachmentOptimal"
           /\ depth_image.layout = "DepthStencilAttachmentOptimal"

C17_Witness ==
    /\ MainPassConstructed
    /\ cfg = [ render_width |-> 800, render_height |-> 600 ]
    /\ mainpass.render_image = [ width |-> 800, height |-> 600, depth |-> 1 ]
    /\ mainpass.viewport.width = 800 /\ mainpass.viewport.height = 600
    /\ mainpass.framebuffer.width = 800 /\ mainpass.framebuffer.height = 600

-----------------------------------------------------------------------------
\* The clock read of main.rs:90-92 has panicked.
ClockFailed == panicking /\ loop_entered /\ running /\ ~FrameOperationFailed

\* A graphics call (construction, a frame operation, device_wait_idle) has panicked.
GraphicsCallFailed == panicking /\ ~ClockFailed

\* Main has left the loop through its condition, after a poll observed Closed.
ExitedAtCondition == pc \notin {"startup", "loop"} /\ ~running /\ close_observed

\* The explored horizon: MaxFrames iterations are done and the Closed event,
\* delivered after the last poll, is still queued.
HorizonReached == BetweenIterations /\ running /\ framecount = MaxFrames /\ close_pending

-----------------------------------------------------------------------------
\* begin_frame is about to make its cmd_begin_render_pass call.
BeginningRenderPass ==
    /\ At("begin_frame") /\ step \in 1..Len(begin_frame_body)
    /\ begin_frame_body[step] = "cmd_begin_render_pass"

-----------------------------------------------------------------------------
\* The position in the teardown of the call that destroys or frees an object.
DestroyedAt(obj) == CHOOSE i \in DOMAIN teardown_log : teardown_log[i].obj = obj

\* MainPass::drop has made all its destroy and free calls.
TornDown == \A obj \in MainPassObjects : \E i \in DOMAIN teardown_log : teardown_log[i].obj = obj

\* The framebuffer's uses of the two image views.
FramebufferViews ==
    { << "framebuffer", "render_image.view" >>, << "framebuffer", "depth_image.view" >> }

-----------------------------------------------------------------------------
\* begin_frame is making its transition_texture call.
TransitionCalled == frame_log' = Append(frame_log, "transition_texture")

(* C21: the barrier of the colour image's per-frame transition is always    *)
(* recorded into the frame's own command buffer (the transition is called   *)
(* with that command buffer, never through the one-off allocate-and-submit  *)
(* path), where that command buffer is recording and the render pass is not *)
(* yet begun; no barrier is ever recorded into a command buffer that is not *)
(* recording or that is inside an open render pass.                         *)
C21_BarrierWhileRecording ==
    /\ [][TransitionCalled =>
             /\ barriers' = Append(barriers, [src |-> render_image, dst |-> BeginFrameTarget])
             /\ cb_state = "recording" /\ cb_state' = "recording"
             /\ ~in_render_pass /\ ~in_render_pass']_vars
    /\ [][(barriers' # barriers /\ barriers' # << >>) =>
             /\ TransitionCalled
             /\ cb_state = "recording" /\ ~in_render_pass]_vars
    /\ [](one_off_submits = 0)
    /\ [](AfterTransition => Len(barriers) = 1)

C21_Witness ==
    /\ At("begin_frame") /\ begin_frames = 2
    /\ frame_log = << "begin_command_buffer", "transition_texture" >>
    /\ cb_state = "recording" /\ ~in_render_pass
    /\ barriers = << [src |-> TransferSrcUsage, dst |-> BeginFrameTarget] >>
    /\ one_off_submits = 0

-----------------------------------------------------------------------------
\* begin_frame or end_frame is making one of its calls.
FrameCall == frame_log' # frame_log /\ frame_log' # << >>

\* The handles used under one role, by any frame so far.
UsedAs(role) == { u[2] : u \in { v \in used_handles : v[1] = role } }

(* C22: begin_frame and end_frame leave every handle owned by the MainPass  *)
(* unchanged (render pass, pipeline, pipeline layout, descriptor-set        *)
(* layouts, descriptor pool, framebuffer, command buffer, uniform buffer,   *)
(* view-matrix descriptor set, viewport, scissor): the same single command  *)
(* buffer and framebuffer are used in every frame, begin_frame returns the  *)
(* same command-buffer handle each time, no per-frame object is created or  *)
(* destroyed, and the only MainPass state a frame may change is the colour  *)
(* image's tracked usage state.                                             *)
C22_HandlesUnchanged ==
    /\ [][FrameCall =>
             /\ handles' = handles /\ mainpass' = mainpass
             /\ depth_image' = depth_image
             /\ live' = live /\ descriptor_pool' = descriptor_pool
             /\ one_off_submits' = one_off_submits]_vars
    /\ [][(handles' # handles \/ mainpass' # mainpass) => Starting("mainpass")]_vars
    /\ [](\A u \in used_handles :
             /\ u[1] \in {"commandbuffer", "returned"} => u[2] = handles.commandbuffer
             /\ u[1] = "framebuffer" => u[2] = handles.framebuffer)
    /\ [](\A u \in used_handles : UsedAs(u[1]) = { u[2] })
    /\ [](submits # << >> =>
             submits[Len(submits)].info.command_buffers = << handles.commandbuffer >>)

C22_Witness ==
    /\ BetweenIterations /\ framecount = 2 /\ begin_frames = 2 /\ end_frames = 2
    /\ handles = MainPassHandles
    /\ UsedAs("returned") = { "commandbuffer" }
    /\ UsedAs("framebuffer") = { "framebuffer" }
    /\ render_image = TransferSrcUsage
    /\ live = MainPassObjects

-----------------------------------------------------------------------------
\* How many times a call occurs in a log.
Count(log, call) == Cardinality({ i \in DOMAIN log : log[i] = call })

\* begin_frame is making its cmd_bind_descriptor_sets call.
BindCalled == frame_log' = Append(frame_log, "cmd_bind_descriptor_sets")

(* C23: the view-matrix descriptor set is allocated from the descriptor-set *)
(* layout at index 1 of the pipeline layout (the uniform-buffer layout)     *)
(* and, in every frame, is bound exactly once at set index 1, inside the    *)
(* render pass and before the command buffer is handed to the caller for    *)
(* draw recording, so every draw of the frame sees the same set-1 binding;  *)
(* begin_frame never binds anything at set index 0.                         *)
C23_ViewMatrixSetBoundOnce ==
    /\ [](MainPassConstructed =>
             /\ last_alloc.ok
             /\ last_alloc.layout = pipeline_set_layouts[1 + 1]
             /\ LayoutDescriptors[last_alloc.layout]
                   = [ CombinedImageSampler |-> 0, UniformBuffer |-> 1 ])
    /\ [][BindCalled =>
             /\ in_render_pass /\ cb_state = "recording"
             /\ At("begin_frame")
             /\ bound_sets = {}
             /\ bound_sets' = { << 1, handles.view_matrix_ds[1] >> }]_vars
    /\ [][bound_sets' # bound_sets /\ bound_sets' # {} => BindCalled]_vars
    /\ [](Count(frame_log, "cmd_bind_descriptor_sets") <= 1)
    /\ [](BeginFrameReturned =>
             /\ Count(frame_log, "cmd_bind_descriptor_sets") = 1
             /\ bound_sets = { << 1, handles.view_matrix_ds[1] >> }
             /\ in_render_pass)
    /\ [](\A b \in bound_sets : b[1] # 0)

C23_Witness ==
    /\ At("scene.draw") /\ begin_frames = 2
    /\ Count(frame_log, "cmd_bind_descriptor_sets") = 1
    /\ bound_sets = { << 1, "view_matrix_ds[0]" >> }
    /\ last_alloc.layout = "view_matrix"
    /\ in_render_pass

-----------------------------------------------------------------------------
\* Main has left its loop, through the condition or by a panic.
LeftLoop == loop_entered /\ pc \notin {"startup", "loop"}

\* The current iteration has recorded, submitted and presented its frame.
FramePresented ==
    /\ Len(iter_log) >= 4
    /\ SubSeq(iter_log, Len(iter_log) - 3, Len(iter_log))
          = << "begin_frame", "scene.draw", "end_frame", "present_image" >>
    /\ frame_log = CompleteFrame
    /\ Len(submits) = 1

(* C24 (as claimed): every run that reaches the main loop records, submits  *)
(* and presents at least one complete frame before it can exit, even when a *)
(* close event is already pending when the loop starts.                     *)
C24_Original == LeftLoop => presents >= 1

(* C24 (amended): the close flag is only updated by the event poll at the   *)
(* end of an outer iteration, so every run that leaves the main loop        *)
(* through its condition (not by a panic of the clock read or of a graphics *)
(* call) has recorded, submitted and presented at least one complete frame, *)
(* even when a close event is already pending when the loop starts; and the *)
(* iteration in which the close event is observed has completed its         *)
(* begin_frame, end_frame and present_image before the flag is cleared.     *)
C24_FrameBeforeExit ==
    /\ [][running' # running =>
             /\ At("poll_events") /\ close_pending /\ ~running'
             /\ FramePresented]_vars
    /\ [](~running =>
             /\ close_observed
             /\ begin_frames >= 1 /\ end_frames = begin_frames /\ presents = begin_frames
             /\ framecount = presents)
    /\ []((LeftLoop /\ presents = 0) => (panicking /\ running))
    /\ []((closed_at_start /\ LeftLoop /\ ~running) => presents >= 1)

C24_Witness ==
    /\ pc = "exited" /\ ~panicking /\ ~running
    /\ closed_at_start /\ close_observed
    /\ presents = 1 /\ framecount = 1
    /\ frame_log = CompleteFrame /\ Len(submits) = 1
    /\ iter_log[Len(iter_log)] = "poll_events"

=============================================================================
